---- MODULE Spec2Model ----
(***************************************************************************)
(* Model of the rgx 2D kit: shape tessellation and the shape batch         *)
(* (src/src/kit/shape2d.rs) and the sprite batch (src/src/kit/sprite2d.rs).*)
(*                                                                         *)
(* f32 values are modelled in fixed point: the integer n stands for the    *)
(* real n / Scale.  Three values outside the finite range stand for NaN,   *)
(* +inf and -inf, and the arithmetic operators propagate them the way IEEE *)
(* arithmetic does.  Inexact results are rounded to the nearest multiple   *)
(* of 1 / Scale.                                                           *)
(***************************************************************************)
EXTENDS Integers, Sequences, FiniteSets, TLC

VARIABLES
    shape,        \* Shape::triangulate: the shape being consumed (self)
    tessPc,       \* "ready", "returned" or "panicked" ("idle": no shape in play)
    tessVerts,    \* Shape::triangulate: the Vec<Vertex> returned
    shapeView,    \* ShapeView { views }
    shapePc,      \* "open", "finished" (self moved into finish) or "panicked"
                  \* ("idle": no batch in play)
    textureView,  \* TextureView { w, h, size, views }
    spritePc,     \* "open" or "finished" ("idle": no batch in play)
    created,      \* the slices handed to Device::create_buffer, in call order
    offsets,      \* the number of TextureView::offset calls so far
    lastOp        \* the most recent call and its arguments

vars == <<shape, tessPc, tessVerts, shapeView, shapePc, textureView, spritePc,
          created, offsets, lastOp>>

-----------------------------------------------------------------------------
(* f32 *)

Scale == 100
NaN == 1000000000
PosInf == 1000000001
NegInf == 1000000002

F(n) == n * Scale

IsNaN(a) == a = NaN
IsInf(a) == a = PosInf \/ a = NegInf
IsFinite(a) == ~IsNaN(a) /\ ~IsInf(a)

Abs(n) == IF n < 0 THEN -n ELSE n
Sign(a) == IF a = PosInf THEN 1
           ELSE IF a = NegInf THEN -1
           ELSE IF a > 0 THEN 1 ELSE IF a < 0 THEN -1 ELSE 0
SignedInf(s) == IF s < 0 THEN NegInf ELSE PosInf

\* n / d rounded to the nearest integer, halves away from zero (d > 0)
RoundDiv(n, d) ==
    IF n >= 0 THEN (2 * n + d) \div (2 * d)
    ELSE -((2 * (-n) + d) \div (2 * d))

FNeg(a) == IF IsNaN(a) THEN NaN
           ELSE IF a = PosInf THEN NegInf
           ELSE IF a = NegInf THEN PosInf
           ELSE -a

FAdd(a, b) ==
    IF IsNaN(a) \/ IsNaN(b) THEN NaN
    ELSE IF IsInf(a) /\ IsInf(b) THEN (IF a = b THEN a ELSE NaN)
    ELSE IF IsInf(a) THEN a
    ELSE IF IsInf(b) THEN b
    ELSE a + b

FSub(a, b) == FAdd(a, FNeg(b))

FMul(a, b) ==
    IF IsNaN(a) \/ IsNaN(b) THEN NaN
    ELSE IF IsInf(a) \/ IsInf(b)
         THEN (IF a = 0 \/ b = 0 THEN NaN ELSE SignedInf(Sign(a) * Sign(b)))
    ELSE RoundDiv(a * b, Scale)

FDiv(a, b) ==
    IF IsNaN(a) \/ IsNaN(b) THEN NaN
    ELSE IF IsInf(a) THEN (IF IsInf(b) THEN NaN
                           ELSE SignedInf(Sign(a) * (IF b < 0 THEN -1 ELSE 1)))
    ELSE IF IsInf(b) THEN 0
    ELSE IF b = 0 THEN (IF a = 0 THEN NaN ELSE SignedInf(Sign(a)))
    ELSE IF b > 0 THEN RoundDiv(a * Scale, b)
    ELSE RoundDiv((-a) * Scale, -b)

RECURSIVE SqrtSearch(_, _, _)
\* the largest r in lo..hi with r * r <= k
SqrtSearch(lo, hi, k) ==
    IF lo >= hi THEN lo
    ELSE LET mid == (lo + hi + 1) \div 2
         IN  IF mid * mid <= k THEN SqrtSearch(mid, hi, k)
             ELSE SqrtSearch(lo, mid - 1, k)

FSqrt(a) ==
    IF IsNaN(a) \/ a = NegInf THEN NaN
    ELSE IF a = PosInf THEN PosInf
    ELSE IF a < 0 THEN NaN
    ELSE LET k == a * Scale
             r == SqrtSearch(0, a + Scale, k)
         IN  IF k - r * r <= (r + 1) * (r + 1) - k THEN r ELSE r + 1

\* f32::round: to the nearest integer, halves away from zero
FRound(a) == IF IsFinite(a) THEN RoundDiv(a, Scale) * Scale ELSE a

\* `as u8`: saturating, NaN to 0
AsU8(a) ==
    IF IsNaN(a) THEN 0
    ELSE IF a = PosInf THEN 255
    ELSE IF a = NegInf THEN 0
    ELSE LET n == IF a >= 0 THEN a \div Scale ELSE -((-a) \div Scale)
         IN  IF n < 0 THEN 0 ELSE IF n > 255 THEN 255 ELSE n

\* cos and sin of i * (2 * PI / sides), for 1 <= sides <= 8 and 0 <= i <= sides
CosTable ==
    << <<100, 100>>,
       <<100, -100, 100>>,
       <<100, -50, -50, 100>>,
       <<100, 0, -100, 0, 100>>,
       <<100, 31, -81, -81, 31, 100>>,
       <<100, 50, -50, -100, -50, 50, 100>>,
       <<100, 62, -22, -90, -90, -22, 62, 100>>,
       <<100, 71, 0, -71, -100, -71, 0, 71, 100>> >>

SinTable ==
    << <<0, 0>>,
       <<0, 0, 0>>,
       <<0, 87, -87, 0>>,
       <<0, 100, 0, -100, 0>>,
       <<0, 95, 59, -59, -95, 0>>,
       <<0, 87, 87, 0, -87, -87, 0>>,
       <<0, 78, 97, 43, -43, -97, -78, 0>>,
       <<0, 71, 100, 71, 0, -71, -100, -71, 0>> >>

\* sides = 0: 2 * PI / 0 is +inf and 0 * inf is NaN
AngleCos(i, sides) == IF sides = 0 THEN NaN ELSE CosTable[sides][i + 1]
AngleSin(i, sides) == IF sides = 0 THEN NaN ELSE SinTable[sides][i + 1]

-----------------------------------------------------------------------------
(* core value types *)

Vector2_new(x, y) == [x |-> x, y |-> y]

Rect_new(x1, y1, x2, y2) == [x1 |-> x1, y1 |-> y1, x2 |-> x2, y2 |-> y2]

\* Rect + Vector2
Rect_add(r, v) ==
    Rect_new(FAdd(r.x1, v.x), FAdd(r.y1, v.y), FAdd(r.x2, v.x), FAdd(r.y2, v.y))

Rgba_new(r, g, b, a) == [r |-> r, g |-> g, b |-> b, a |-> a]

RgbaTRANSPARENT == Rgba_new(0, 0, 0, 0)

\* Vector2 - Vector2
Vector2_sub(a, b) == Vector2_new(FSub(a.x, b.x), FSub(a.y, b.y))

\* InnerSpace::magnitude
magnitude(v) == FSqrt(FAdd(FMul(v.x, v.x), FMul(v.y, v.y)))

\* InnerSpace::normalize
normalize(v) ==
    LET m == magnitude(v)
    IN  Vector2_new(FDiv(v.x, m), FDiv(v.y, m))

\* impl From<Rgba> for Rgba8
Rgba8_from(rgba) ==
    [r |-> AsU8(FRound(FMul(rgba.r, F(255)))),
     g |-> AsU8(FRound(FMul(rgba.g, F(255)))),
     b |-> AsU8(FRound(FMul(rgba.b, F(255)))),
     a |-> AsU8(FRound(FMul(rgba.a, F(255))))]

-----------------------------------------------------------------------------
(* shape2d.rs: shapes *)

Vertex_new(x, y, color) == [position |-> Vector2_new(x, y), color |-> color]

Stroke_new(width, color) == [width |-> width, color |-> color]

StrokeNONE == Stroke_new(0, RgbaTRANSPARENT)

FillEmpty == [kind |-> "Empty"]
FillSolid(c) == [kind |-> "Solid", color |-> c]
FillGradient(c1, c2) == [kind |-> "Gradient", c1 |-> c1, c2 |-> c2]

Line_new(x1, y1, x2, y2) == [p1 |-> Vector2_new(x1, y1), p2 |-> Vector2_new(x2, y2)]

ShapeLine(l, stroke) == [kind |-> "Line", l |-> l, stroke |-> stroke]
ShapeRectangle(r, stroke, fill) ==
    [kind |-> "Rectangle", r |-> r, stroke |-> stroke, fill |-> fill]
ShapeCircle(position, radius, sides, stroke, fill) ==
    [kind |-> "Circle", position |-> position, radius |-> radius,
     sides |-> sides, stroke |-> stroke, fill |-> fill]

\* the value of a call that returns a Vec<Vertex>, or unwinds
Returned(vs) == [panic |-> FALSE, verts |-> vs]
Panicked == [panic |-> TRUE, verts |-> <<>>]

\* triangulate_line with the offset rotated the wrong way
triangulate_line_parallel(l, stroke) ==
    LET v == normalize(Vector2_sub(l.p2, l.p1))
        wx == FMul(FDiv(stroke.width, F(2)), v.y)
        wy == FMul(FDiv(stroke.width, F(2)), v.x)
        rgba8 == Rgba8_from(stroke.color)
    IN  << Vertex_new(FSub(l.p1.x, wx), FSub(l.p1.y, wy), rgba8),
           Vertex_new(FAdd(l.p1.x, wx), FAdd(l.p1.y, wy), rgba8),
           Vertex_new(FSub(l.p2.x, wx), FSub(l.p2.y, wy), rgba8),
           Vertex_new(FSub(l.p2.x, wx), FSub(l.p2.y, wy), rgba8),
           Vertex_new(FAdd(l.p1.x, wx), FAdd(l.p1.y, wy), rgba8),
           Vertex_new(FAdd(l.p2.x, wx), FAdd(l.p2.y, wy), rgba8) >>

\* Shape::triangulate, the Line arm
triangulate_line(l, stroke) ==
    LET v == normalize(Vector2_sub(l.p2, l.p1))
        wx == FMul(FDiv(stroke.width, F(2)), v.y)
        wy == FMul(FDiv(stroke.width, F(2)), v.x)
        rgba8 == Rgba8_from(stroke.color)
    IN  << Vertex_new(FSub(l.p1.x, wx), FAdd(l.p1.y, wy), rgba8),
           Vertex_new(FAdd(l.p1.x, wx), FSub(l.p1.y, wy), rgba8),
           Vertex_new(FSub(l.p2.x, wx), FAdd(l.p2.y, wy), rgba8),
           Vertex_new(FSub(l.p2.x, wx), FAdd(l.p2.y, wy), rgba8),
           Vertex_new(FAdd(l.p1.x, wx), FSub(l.p1.y, wy), rgba8),
           Vertex_new(FAdd(l.p2.x, wx), FSub(l.p2.y, wy), rgba8) >>

\* rectangle_stroke with every border line centred on its edge
rectangle_stroke_centred(r, width) ==
    << Line_new(r.x1, FAdd(r.y1, width), r.x1, r.y2),
       Line_new(r.x2, r.y1, r.x2, FSub(r.y2, width)),
       Line_new(FAdd(r.x1, width), r.y2, r.x2, r.y2),
       Line_new(r.x1, r.y1, FSub(r.x2, width), r.y1) >>

\* Shape::triangulate, the Rectangle arm: the four border lines
rectangle_stroke(r, width) ==
    LET w == FDiv(width, F(2))
    IN  << Line_new(FAdd(r.x1, w), FAdd(r.y1, width), FAdd(r.x1, w), r.y2),
           Line_new(FSub(r.x2, w), r.y1, FSub(r.x2, w), FSub(r.y2, width)),
           Line_new(FAdd(r.x1, width), FSub(r.y2, w), r.x2, FSub(r.y2, w)),
           Line_new(r.x1, FAdd(r.y1, w), FSub(r.x2, width), FAdd(r.y1, w)) >>

\* rectangle_fill with the inner rect inset by half the stroke width
rectangle_fill_half(r, width, color) ==
    LET rgba8 == Rgba8_from(color)
        w == FDiv(width, F(2))
        inner == Rect_new(FAdd(r.x1, w), FAdd(r.y1, w), FSub(r.x2, w), FSub(r.y2, w))
    IN  << Vertex_new(inner.x1, inner.y1, rgba8),
           Vertex_new(inner.x2, inner.y1, rgba8),
           Vertex_new(inner.x2, inner.y2, rgba8),
           Vertex_new(inner.x1, inner.y1, rgba8),
           Vertex_new(inner.x1, inner.y2, rgba8),
           Vertex_new(inner.x2, inner.y2, rgba8) >>

\* Shape::triangulate, the Rectangle arm: the solid fill
rectangle_fill(r, width, color) ==
    LET rgba8 == Rgba8_from(color)
        inner == Rect_new(FAdd(r.x1, width), FAdd(r.y1, width),
                          FSub(r.x2, width), FSub(r.y2, width))
    IN  << Vertex_new(inner.x1, inner.y1, rgba8),
           Vertex_new(inner.x2, inner.y1, rgba8),
           Vertex_new(inner.x2, inner.y2, rgba8),
           Vertex_new(inner.x1, inner.y1, rgba8),
           Vertex_new(inner.x1, inner.y2, rgba8),
           Vertex_new(inner.x2, inner.y2, rgba8) >>

\* triangulate_rectangle that returns the stroke alone for a gradient fill
triangulate_rectangle_silent(r, stroke, fill) ==
    LET lines == rectangle_stroke(r, stroke.width)
        st == Stroke_new(stroke.width, stroke.color)
        verts == triangulate_line(lines[1], st) \o triangulate_line(lines[2], st)
                 \o triangulate_line(lines[3], st) \o triangulate_line(lines[4], st)
    IN  CASE fill.kind = "Solid" ->
               Returned(verts \o rectangle_fill(r, stroke.width, fill.color))
          [] fill.kind = "Gradient" -> Returned(verts)
          [] fill.kind = "Empty" -> Returned(verts)

\* Shape::triangulate, the Rectangle arm
triangulate_rectangle(r, stroke, fill) ==
    LET lines == rectangle_stroke(r, stroke.width)
        st == Stroke_new(stroke.width, stroke.color)
        verts == triangulate_line(lines[1], st) \o triangulate_line(lines[2], st)
                 \o triangulate_line(lines[3], st) \o triangulate_line(lines[4], st)
    IN  CASE fill.kind = "Solid" ->
               Returned(verts \o rectangle_fill(r, stroke.width, fill.color))
          [] fill.kind = "Gradient" -> Panicked
          [] fill.kind = "Empty" -> Returned(verts)

\* Shape::triangulate_circle: sides + 1 points
triangulate_circle(position, radius, sides) ==
    [k \in 1..(sides + 1) |->
        <<FAdd(position.x, FMul(radius, AngleCos(k - 1, sides))),
          FAdd(position.y, FMul(radius, AngleSin(k - 1, sides)))>>]

\* circle_stroke_quad with the second triangle closed on outer[i]
circle_stroke_quad_open(inner_verts, outer_verts, i) ==
    << inner_verts[i + 1], outer_verts[i + 1], outer_verts[i + 2],
       inner_verts[i + 1], outer_verts[i + 2], outer_verts[i + 1] >>

\* Shape::triangulate, the Circle arm: the six vertices pushed by iteration i
\* (0-based) of the stroke loop
circle_stroke_quad(inner_verts, outer_verts, i) ==
    << inner_verts[i + 1], outer_verts[i + 1], outer_verts[i + 2],
       inner_verts[i + 1], outer_verts[i + 2], inner_verts[i + 2] >>

RECURSIVE circle_stroke(_, _, _)
\* the vertices pushed by iterations 0 .. n-1 of the stroke loop
circle_stroke(inner_verts, outer_verts, n) ==
    IF n = 0 THEN <<>>
    ELSE circle_stroke(inner_verts, outer_verts, n - 1)
         \o circle_stroke_quad(inner_verts, outer_verts, n - 1)

RECURSIVE circle_fan(_, _, _)
\* the vertices pushed by iterations 0 .. n-1 of the fill loop
circle_fan(center, inner_verts, n) ==
    IF n = 0 THEN <<>>
    ELSE circle_fan(center, inner_verts, n - 1)
         \o << center, inner_verts[n], inner_verts[n + 1] >>

\* Shape::triangulate, the Circle arm: the solid fill
circle_fill(position, inner, sides, color) ==
    LET rgba8 == Rgba8_from(color)
        center == Vertex_new(position.x, position.y, rgba8)
        inner_verts == [k \in 1..Len(inner) |-> Vertex_new(inner[k][1], inner[k][2], rgba8)]
    IN  circle_fan(center, inner_verts, sides)
        \o << center, inner_verts[Len(inner_verts)], inner_verts[1] >>

\* Shape::triangulate, the Circle arm
triangulate_circle_shape(position, radius, sides, stroke, fill) ==
    LET outer == triangulate_circle(position, radius, sides)
        hasStroke == stroke # StrokeNONE
        inner == IF hasStroke
                 THEN triangulate_circle(position, FSub(radius, stroke.width), sides)
                 ELSE outer
        rgba8 == Rgba8_from(stroke.color)
        inner_verts == [k \in 1..Len(inner) |-> Vertex_new(inner[k][1], inner[k][2], rgba8)]
        outer_verts == [k \in 1..Len(outer) |-> Vertex_new(outer[k][1], outer[k][2], rgba8)]
        verts == IF hasStroke
                 THEN circle_stroke(inner_verts, outer_verts, Len(inner) - 1)
                 ELSE <<>>
    IN  CASE fill.kind = "Solid" ->
               Returned(verts \o circle_fill(position, inner, sides, fill.color))
          [] fill.kind = "Gradient" -> Panicked
          [] fill.kind = "Empty" -> Returned(verts)

\* Shape::triangulate
triangulate(s) ==
    CASE s.kind = "Line" -> Returned(triangulate_line(s.l, s.stroke))
      [] s.kind = "Rectangle" -> triangulate_rectangle(s.r, s.stroke, s.fill)
      [] s.kind = "Circle" ->
            triangulate_circle_shape(s.position, s.radius, s.sides, s.stroke, s.fill)

-----------------------------------------------------------------------------
(* shape2d.rs: ShapeView *)

ShapeView_new == [views |-> <<>>]

ShapeView_add(self, s) == [self EXCEPT !.views = Append(@, s)]

\* ShapeView::finish: one iteration of the loop, unless the call (or an earlier
\* one) unwound
finish_append(buf, verts) ==
    IF buf.panic \/ verts.panic THEN Panicked
    ELSE Returned(buf.verts \o verts.verts)

RECURSIVE finish_loop_prepend(_, _)
\* finish_loop with each shape's vertices put in front of buf
finish_loop_prepend(views, n) ==
    IF n = 0 THEN Returned(<<>>)
    ELSE finish_append(triangulate(views[n]), finish_loop_prepend(views, n - 1))

RECURSIVE finish_loop(_, _)
\* ShapeView::finish: buf after the first n shapes, unless one of them unwound
finish_loop(views, n) ==
    IF n = 0 THEN Returned(<<>>)
    ELSE finish_append(finish_loop(views, n - 1), triangulate(views[n]))

-----------------------------------------------------------------------------
(* sprite2d.rs: TextureView *)

SpriteVertex_new(x, y, u, v, color) ==
    [position |-> Vector2_new(x, y), uv |-> Vector2_new(u, v), color |-> color]

Repeat_new(x, y) == [x |-> x, y |-> y]

Entry(src, dst, rgba, rep) == [src |-> src, dst |-> dst, rgba |-> rgba, rep |-> rep]

TextureView_new(w, h) == [w |-> w, h |-> h, views |-> <<>>, size |-> 0]

TextureView_add(self, src, dst, rgba, rep) ==
    [self EXCEPT !.views = Append(@, Entry(src, dst, rgba, rep)), !.size = @ + 1]

TextureView_singleton(w, h, src, dst, rgba, rep) ==
    TextureView_add(TextureView_new(w, h), src, dst, rgba, rep)

\* sprite_quad without the flip of the V axis
sprite_quad_unflipped(self, e) ==
    LET rx1 == FDiv(e.src.x1, F(self.w))
        ry1 == FDiv(e.src.y1, F(self.h))
        rx2 == FDiv(e.src.x2, F(self.w))
        ry2 == FDiv(e.src.y2, F(self.h))
        c == Rgba8_from(e.rgba)
    IN  << SpriteVertex_new(e.dst.x1, e.dst.y1, FMul(rx1, e.rep.x), FMul(ry1, e.rep.y), c),
           SpriteVertex_new(e.dst.x2, e.dst.y1, FMul(rx2, e.rep.x), FMul(ry1, e.rep.y), c),
           SpriteVertex_new(e.dst.x2, e.dst.y2, FMul(rx2, e.rep.x), FMul(ry2, e.rep.y), c),
           SpriteVertex_new(e.dst.x1, e.dst.y1, FMul(rx1, e.rep.x), FMul(ry1, e.rep.y), c),
           SpriteVertex_new(e.dst.x1, e.dst.y2, FMul(rx1, e.rep.x), FMul(ry2, e.rep.y), c),
           SpriteVertex_new(e.dst.x2, e.dst.y2, FMul(rx2, e.rep.x), FMul(ry2, e.rep.y), c) >>

\* TextureView::finish: the six vertices of one entry
sprite_quad(self, e) ==
    LET rx1 == FDiv(e.src.x1, F(self.w))
        ry1 == FDiv(e.src.y1, F(self.h))
        rx2 == FDiv(e.src.x2, F(self.w))
        ry2 == FDiv(e.src.y2, F(self.h))
        c == Rgba8_from(e.rgba)
    IN  << SpriteVertex_new(e.dst.x1, e.dst.y1, FMul(rx1, e.rep.x), FMul(ry2, e.rep.y), c),
           SpriteVertex_new(e.dst.x2, e.dst.y1, FMul(rx2, e.rep.x), FMul(ry2, e.rep.y), c),
           SpriteVertex_new(e.dst.x2, e.dst.y2, FMul(rx2, e.rep.x), FMul(ry1, e.rep.y), c),
           SpriteVertex_new(e.dst.x1, e.dst.y1, FMul(rx1, e.rep.x), FMul(ry2, e.rep.y), c),
           SpriteVertex_new(e.dst.x1, e.dst.y2, FMul(rx1, e.rep.x), FMul(ry1, e.rep.y), c),
           SpriteVertex_new(e.dst.x2, e.dst.y2, FMul(rx2, e.rep.x), FMul(ry1, e.rep.y), c) >>

RECURSIVE sprite_finish_loop_dedup(_, _)
\* sprite_finish_loop that skips an entry equal to the one before it
sprite_finish_loop_dedup(self, n) ==
    IF n = 0 THEN <<>>
    ELSE IF n > 1 /\ self.views[n] = self.views[n - 1]
         THEN sprite_finish_loop_dedup(self, n - 1)
         ELSE sprite_finish_loop_dedup(self, n - 1) \o sprite_quad(self, self.views[n])

RECURSIVE sprite_finish_loop(_, _)
\* TextureView::finish: buf after the first n entries
sprite_finish_loop(self, n) ==
    IF n = 0 THEN <<>>
    ELSE sprite_finish_loop(self, n - 1) \o sprite_quad(self, self.views[n])

\* TextureView_offset that moves only the first corner of dst
TextureView_offset_corner(self, x, y) ==
    [self EXCEPT !.views =
        [k \in 1..Len(@) |->
            [@[k] EXCEPT !.dst = Rect_new(FAdd(@.x1, x), FAdd(@.y1, y), @.x2, @.y2)]]]

TextureView_offset(self, x, y) ==
    [self EXCEPT !.views =
        [k \in 1..Len(@) |-> [@[k] EXCEPT !.dst = Rect_add(@, Vector2_new(x, y))]]]

-----------------------------------------------------------------------------
(* inputs *)

MaxWidth == 2
MaxSides == 4
MaxShapes == 2
MaxEntries == 2
MaxOffsets == 2

RED == Rgba_new(F(1), 0, 0, F(1))
GREEN == Rgba_new(0, F(1), 0, F(1))
BLUE == Rgba_new(0, 0, F(1), F(1))
WHITE == Rgba_new(F(1), F(1), F(1), F(1))
GREY == Rgba_new(F(1) \div 2, F(1) \div 2, F(1) \div 2, F(1) \div 2)

Strokes == {Stroke_new(F(w), c) : w \in 0..MaxWidth, c \in {RgbaTRANSPARENT, RED}}

Fills == {FillEmpty, FillSolid(BLUE), FillGradient(RED, BLUE)}

\* endpoints on a 4 x 3 grid cell: every difference has a rational direction
LinePoints == {<<0, 0>>, <<4, 0>>, <<0, 3>>, <<4, 3>>}

Lines == {Line_new(F(a[1]), F(a[2]), F(b[1]), F(b[2])) : a \in LinePoints, b \in LinePoints}

Rects == {Rect_new(0, 0, F(8), F(6)), Rect_new(F(1), F(1), F(3), F(3))}

Shapes ==
    {ShapeLine(l, st) : l \in Lines, st \in Strokes}
    \cup {ShapeRectangle(r, st, f) : r \in Rects, st \in Strokes, f \in Fills}
    \cup {ShapeCircle(Vector2_new(F(5), F(5)), F(4), n, st, f) :
            n \in 0..MaxSides, st \in Strokes, f \in Fills}

\* the shapes added to a batch, each with colours of its own
BatchShapes ==
    {ShapeLine(Line_new(0, 0, F(4), F(3)), Stroke_new(F(2), GREEN)),
     ShapeLine(Line_new(F(4), F(3), F(4), F(3)), Stroke_new(F(2), GREY)),
     ShapeRectangle(Rect_new(0, 0, F(8), F(6)), Stroke_new(F(1), RED), FillEmpty),
     ShapeRectangle(Rect_new(0, 0, F(8), F(6)), Stroke_new(F(1), WHITE), FillSolid(BLUE)),
     ShapeRectangle(Rect_new(0, 0, F(8), F(6)), Stroke_new(F(1), RED), FillGradient(RED, BLUE)),
     ShapeRectangle(Rect_new(0, 0, F(8), F(6)), StrokeNONE, FillGradient(GREEN, BLUE)),
     ShapeCircle(Vector2_new(F(5), F(5)), F(4), 3, StrokeNONE, FillSolid(GREY)),
     ShapeCircle(Vector2_new(F(5), F(5)), F(4), 3, Stroke_new(F(1), BLUE), FillEmpty),
     ShapeCircle(Vector2_new(F(5), F(5)), F(4), 4, Stroke_new(F(1), RED), FillGradient(RED, GREEN)),
     ShapeCircle(Vector2_new(F(5), F(5)), F(4), 4, StrokeNONE, FillGradient(RED, GREEN)),
     ShapeCircle(Vector2_new(F(5), F(5)), F(4), 4, StrokeNONE, FillEmpty)}

AtlasSizes == {<<64, 64>>, <<0, 32>>}

Entries ==
    {Entry(Rect_new(0, 0, F(32), F(32)), Rect_new(F(10), F(10), F(42), F(42)),
           WHITE, Repeat_new(F(1), F(1))),
     Entry(Rect_new(F(32), F(16), F(64), F(48)), Rect_new(0, 0, F(16), F(16)),
           GREY, Repeat_new(F(2), F(3))),
     Entry(Rect_new(F(16), 0, F(48), F(32)), Rect_new(F(10), F(10), F(42), F(42)),
           RED, Repeat_new(F(1), F(1)))}

OffsetsX == {F(-1), F(2)}
OffsetsY == {0, F(3)}

Op(name) == [op |-> name, x |-> 0, y |-> 0]

-----------------------------------------------------------------------------
(* the three state machines *)

TessIdle == shape = ShapeLine(Line_new(0, 0, 0, 0), StrokeNONE)
            /\ tessPc = "idle" /\ tessVerts = <<>>
ShapeIdle == shapeView = ShapeView_new /\ shapePc = "idle"
SpriteIdle == textureView = TextureView_new(0, 0) /\ spritePc = "idle" /\ offsets = 0

\* a shape is constructed; Shape::triangulate has not been called
InitTess ==
    /\ shape \in Shapes
    /\ tessPc = "ready"
    /\ tessVerts = <<>>
    /\ ShapeIdle /\ SpriteIdle
    /\ created = <<>>
    /\ lastOp = Op("new")

\* Shape::triangulate(self)
Triangulate ==
    /\ tessPc = "ready"
    /\ LET res == triangulate(shape)
       IN  /\ tessPc' = IF res.panic THEN "panicked" ELSE "returned"
           /\ tessVerts' = res.verts
    /\ lastOp' = Op("triangulate")
    /\ UNCHANGED <<shape, shapeView, shapePc, textureView, spritePc, created, offsets>>

NextTess == Triangulate

SpecTess == InitTess /\ [][NextTess]_vars

\* ShapeView::new()
InitShape ==
    /\ shapeView = ShapeView_new
    /\ shapePc = "open"
    /\ TessIdle /\ SpriteIdle
    /\ created = <<>>
    /\ lastOp = Op("new")

\* ShapeView::add(&mut self, shape)
ShapeViewAdd(s) ==
    /\ shapePc = "open"
    /\ Len(shapeView.views) < MaxShapes
    /\ shapeView' = ShapeView_add(shapeView, s)
    /\ lastOp' = Op("add")
    /\ UNCHANGED <<shape, tessPc, tessVerts, shapePc, textureView, spritePc,
                   created, offsets>>

\* ShapeView::finish(self, r): self is moved; shapeView keeps the views it held
ShapeViewFinish ==
    /\ shapePc = "open"
    /\ LET buf == finish_loop(shapeView.views, Len(shapeView.views))
       IN  IF buf.panic
           THEN shapePc' = "panicked" /\ created' = created
           ELSE shapePc' = "finished" /\ created' = Append(created, buf.verts)
    /\ lastOp' = Op("finish")
    /\ UNCHANGED <<shape, tessPc, tessVerts, shapeView, textureView, spritePc, offsets>>

NextShape == (\E s \in BatchShapes : ShapeViewAdd(s)) \/ ShapeViewFinish

SpecShape == InitShape /\ [][NextShape]_vars

\* TextureView::new(w, h) or TextureView::singleton(w, h, src, dst, rgba, rep)
InitSprite ==
    /\ \E wh \in AtlasSizes :
          \/ textureView = TextureView_new(wh[1], wh[2])
          \/ \E e \in Entries :
                textureView = TextureView_singleton(wh[1], wh[2], e.src, e.dst, e.rgba, e.rep)
    /\ spritePc = "open"
    /\ offsets = 0
    /\ TessIdle /\ ShapeIdle
    /\ created = <<>>
    /\ lastOp = Op("new")

\* TextureView::add(&mut self, src, dst, rgba, rep)
TextureViewAdd(e) ==
    /\ spritePc = "open"
    /\ Len(textureView.views) < MaxEntries
    /\ textureView' = TextureView_add(textureView, e.src, e.dst, e.rgba, e.rep)
    /\ lastOp' = Op("add")
    /\ UNCHANGED <<shape, tessPc, tessVerts, shapeView, shapePc, spritePc,
                   created, offsets>>

\* TextureView::offset(&mut self, x, y)
TextureViewOffset(x, y) ==
    /\ spritePc = "open"
    /\ offsets < MaxOffsets
    /\ textureView' = TextureView_offset(textureView, x, y)
    /\ offsets' = offsets + 1
    /\ lastOp' = [op |-> "offset", x |-> x, y |-> y]
    /\ UNCHANGED <<shape, tessPc, tessVerts, shapeView, shapePc, spritePc, created>>

\* TextureView::finish(self, r): self is moved; textureView keeps what it held
TextureViewFinish ==
    /\ spritePc = "open"
    /\ spritePc' = "finished"
    /\ created' = Append(created, sprite_finish_loop(textureView, Len(textureView.views)))
    /\ lastOp' = Op("finish")
    /\ UNCHANGED <<shape, tessPc, tessVerts, shapeView, shapePc, textureView, offsets>>

NextSprite ==
    \/ \E e \in Entries : TextureViewAdd(e)
    \/ \E x \in OffsetsX, y \in OffsetsY : TextureViewOffset(x, y)
    \/ TextureViewFinish

SpecSprite == InitSprite /\ [][NextSprite]_vars

-----------------------------------------------------------------------------
(* properties *)

RECURSIVE RunStart(_, _)
\* the number of vertices of the shapes before the k-th
RunStart(views, k) ==
    IF k = 1 THEN 0
    ELSE RunStart(views, k - 1) + Len(triangulate(views[k - 1]).verts)

\* C1: when ShapeView::finish hands a slice to create_buffer, the slice is the
\* tessellation of the first shape added, then that of the second, and so on,
\* each as one contiguous run; with no shape added the slice is empty and
\* create_buffer is still called with it.
C1_ShapeBatchConcatenation ==
    shapePc = "finished" =>
        /\ Len(created) = 1
        /\ LET buf == created[1]
               views == shapeView.views
           IN  /\ Len(buf) = RunStart(views, Len(views) + 1)
               /\ \A k \in 1..Len(views) :
                     SubSeq(buf, RunStart(views, k) + 1, RunStart(views, k + 1))
                        = triangulate(views[k]).verts
               /\ (views = <<>> => buf = <<>>)

C1_Witness ==
    /\ shapePc = "finished"
    /\ Len(shapeView.views) = 2
    /\ shapeView.views[1].kind = "Rectangle"
    /\ shapeView.views[2].kind = "Circle"
    /\ Len(created) = 1
    /\ Len(created[1]) = 24 + 18

\* C2: TextureView::finish hands create_buffer 6 vertices per entry, the k-th
\* entry added (0-based) at indices 6k .. 6k+5.
C2_SpriteBatchLayout ==
    spritePc = "finished" =>
        /\ Len(created) = 1
        /\ LET buf == created[1]
               views == textureView.views
           IN  /\ Len(buf) = 6 * Len(views)
               /\ Len(views) = textureView.size
               /\ \A k \in 1..Len(views) :
                     SubSeq(buf, 6 * (k - 1) + 1, 6 * k) = sprite_quad(textureView, views[k])

C2_Witness ==
    /\ spritePc = "finished"
    /\ Len(textureView.views) = 2
    /\ textureView.views[1].rgba # textureView.views[2].rgba
    /\ offsets > 0
    /\ Len(created[1]) = 12

\* what a call offset(x, y) does to the batch
OffsetEffect(x, y) ==
    /\ Len(textureView'.views) = Len(textureView.views)
    /\ \A k \in 1..Len(textureView.views) :
          LET a == textureView.views[k]
              b == textureView'.views[k]
          IN  /\ b.src = a.src
              /\ b.rgba = a.rgba
              /\ b.rep = a.rep
              /\ b.dst.x1 = a.dst.x1 + x
              /\ b.dst.y1 = a.dst.y1 + y
              /\ b.dst.x2 = a.dst.x2 + x
              /\ b.dst.y2 = a.dst.y2 + y
    /\ textureView'.size = textureView.size
    /\ textureView'.w = textureView.w
    /\ textureView'.h = textureView.h

\* C3: TextureView::offset(dx, dy) translates the destination rect of every
\* entry by (dx, dy) and changes nothing else of the batch.
C3_OffsetTranslatesDst ==
    [][lastOp'.op = "offset" => OffsetEffect(lastOp'.x, lastOp'.y)]_vars

C3_Witness ==
    /\ lastOp.op = "offset"
    /\ lastOp.x # 0
    /\ lastOp.y # 0
    /\ spritePc = "open"
    /\ Len(textureView.views) = 2
    /\ textureView.views[1].dst # textureView.views[2].dst

\* C4: a circle with n >= 3 sides, Stroke::NONE and a solid fill tessellates
\* to exactly 3n vertices.
C4_CircleFillCount ==
    (/\ tessPc # "ready"
     /\ shape.kind = "Circle"
     /\ shape.sides >= 3
     /\ shape.stroke = StrokeNONE
     /\ shape.fill.kind = "Solid")
    => tessPc = "returned" /\ Len(tessVerts) = 3 * shape.sides

HasGradient(s) == s.kind # "Line" /\ s.fill.kind = "Gradient"

\* C5: a rectangle or circle with a gradient fill makes triangulate unwind
\* without returning a vertex, so finishing a batch holding such a shape at
\* any position unwinds and create_buffer is never called.
C5_GradientAborts ==
    (/\ shapePc # "open"
     /\ \E k \in 1..Len(shapeView.views) : HasGradient(shapeView.views[k]))
    => shapePc = "panicked" /\ created = <<>>

C5_Witness ==
    /\ shapePc = "panicked"
    /\ Len(shapeView.views) = 2
    /\ ~HasGradient(shapeView.views[1])
    /\ shapeView.views[1].kind = "Rectangle"
    /\ HasGradient(shapeView.views[2])
    /\ shapeView.views[2].kind = "Rectangle"
    /\ shapeView.views[2].stroke # StrokeNONE
    /\ created = <<>>

ZeroLength(s) == s.kind = "Line" /\ s.l.p1 = s.l.p2

HasNaN(verts) ==
    \E j \in 1..Len(verts) : IsNaN(verts[j].position.x) \/ IsNaN(verts[j].position.y)

\* C6: a zero-length line never puts a vertex with a NaN coordinate into the
\* slice a batch hands to create_buffer: it emits nothing, or the call fails.
C6_ZeroLengthLineNoNaN ==
    (\E k \in 1..Len(shapeView.views) : ZeroLength(shapeView.views[k]))
    => \A i \in 1..Len(created) : ~HasNaN(created[i])

\* C7: a line from p1 to p2, p1 # p2, with stroke width W and color c
\* tessellates to the six vertices p1-o, p1+o, p2-o, p2-o, p1+o, p2+o, all of
\* the packed color of c, where o is perpendicular to p2-p1 and W/2 long.
C7_LineQuad ==
    (tessPc # "ready" /\ shape.kind = "Line" /\ ~ZeroLength(shape))
    => /\ tessPc = "returned"
       /\ Len(tessVerts) = 6
       /\ \A j \in 1..6 : tessVerts[j].color = Rgba8_from(shape.stroke.color)
       /\ LET p1 == shape.l.p1
              p2 == shape.l.p2
              ox == p1.x - tessVerts[1].position.x
              oy == p1.y - tessVerts[1].position.y
              pos(p, sgn) == Vector2_new(p.x + sgn * ox, p.y + sgn * oy)
          IN  /\ [j \in 1..6 |-> tessVerts[j].position]
                    = << pos(p1, -1), pos(p1, 1), pos(p2, -1),
                         pos(p2, -1), pos(p1, 1), pos(p2, 1) >>
              /\ ox * (p2.x - p1.x) + oy * (p2.y - p1.y) = 0
              /\ 4 * (ox * ox + oy * oy) = shape.stroke.width * shape.stroke.width

C7_Witness ==
    /\ tessPc = "returned"
    /\ shape.kind = "Line"
    /\ shape.l.p1.x # shape.l.p2.x
    /\ shape.l.p1.y # shape.l.p2.y
    /\ shape.stroke.width = F(2)
    /\ shape.stroke.color = RED
    /\ Len(tessVerts) = 6

\* C8: a rectangle with stroke width w > 0 tessellates to 24 vertices with an
\* empty fill and to 30 with a solid fill: 24 of the stroke color, then 6 of
\* the fill color at the corners of the rect inset by w on every side.
C8_RectangleCounts ==
    (/\ tessPc # "ready"
     /\ shape.kind = "Rectangle"
     /\ shape.stroke.width > 0
     /\ shape.fill.kind # "Gradient")
    => /\ tessPc = "returned"
       /\ Len(tessVerts) = IF shape.fill.kind = "Empty" THEN 24 ELSE 30
       /\ \A j \in 1..24 : tessVerts[j].color = Rgba8_from(shape.stroke.color)
       /\ shape.fill.kind = "Solid" =>
            LET r == shape.r
                w == shape.stroke.width
                corners == {Vector2_new(x, y) : x \in {r.x1 + w, r.x2 - w},
                                                y \in {r.y1 + w, r.y2 - w}}
            IN  /\ \A j \in 25..30 : tessVerts[j].color = Rgba8_from(shape.fill.color)
                /\ {tessVerts[j].position : j \in 25..30} = corners

C8_Witness ==
    /\ tessPc = "returned"
    /\ shape.kind = "Rectangle"
    /\ shape.stroke.width = F(1)
    /\ shape.stroke.color = RED
    /\ shape.fill.kind = "Solid"
    /\ shape.r.x2 - shape.r.x1 > F(2)
    /\ Len(tessVerts) = 30

\* the squared distance of point p from c is r * r, up to the rounding of the
\* sine and cosine
AtRadius(p, c, r) ==
    LET d2 == (p.x - c.x) * (p.x - c.x) + (p.y - c.y) * (p.y - c.y)
    IN  Abs(d2 - r * r) * 25 <= r * r + 25 * Scale

\* C9: a circle with n >= 3 sides, a stroke of width > 0 and an empty fill
\* tessellates to 6n vertices of the stroke color, the i-th six being
\* inner[i], outer[i], outer[i+1], inner[i], outer[i+1], inner[i+1], with
\* outer at radius and inner at radius - width.
C9_CircleStroke ==
    (/\ tessPc # "ready"
     /\ shape.kind = "Circle"
     /\ shape.sides >= 3
     /\ shape.stroke.width > 0
     /\ shape.fill.kind = "Empty")
    => /\ tessPc = "returned"
       /\ Len(tessVerts) = 6 * shape.sides
       /\ \A j \in 1..Len(tessVerts) : tessVerts[j].color = Rgba8_from(shape.stroke.color)
       /\ LET n == shape.sides
              pt(q) == Vector2_new(q[1], q[2])
              outer == triangulate_circle(shape.position, shape.radius, n)
              inner == triangulate_circle(shape.position,
                                          shape.radius - shape.stroke.width, n)
              at(i, j) == tessVerts[6 * i + j].position
          IN  /\ \A i \in 0..(n - 1) :
                    /\ at(i, 1) = pt(inner[i + 1])
                    /\ at(i, 2) = pt(outer[i + 1])
                    /\ at(i, 3) = pt(outer[i + 2])
                    /\ at(i, 4) = pt(inner[i + 1])
                    /\ at(i, 5) = pt(outer[i + 2])
                    /\ at(i, 6) = pt(inner[i + 2])
                    /\ AtRadius(at(i, 2), shape.position, shape.radius)
                    /\ AtRadius(at(i, 3), shape.position, shape.radius)
                    /\ AtRadius(at(i, 1), shape.position,
                                shape.radius - shape.stroke.width)
                    /\ AtRadius(at(i, 6), shape.position,
                                shape.radius - shape.stroke.width)

C9_Witness ==
    /\ tessPc = "returned"
    /\ shape.kind = "Circle"
    /\ shape.sides = 4
    /\ shape.stroke.width = F(1)
    /\ shape.stroke.color = RED
    /\ shape.fill.kind = "Empty"
    /\ Len(tessVerts) = 24

\* the entry of the example: source (0,0,32,32), destination (10,10,42,42),
\* repeat (1,1)
ExampleEntry(e) ==
    /\ e.src = Rect_new(0, 0, F(32), F(32))
    /\ e.dst = Rect_new(F(10), F(10), F(42), F(42))
    /\ e.rep = Repeat_new(F(1), F(1))

\* C10: for every entry of a sprite batch, finish emits six vertices at the
\* corners of dst (two triangles sharing the (x1,y1)-(x2,y2) diagonal), with
\* the UVs of the corners of src divided by (w,h) and multiplied by rep, V
\* flipped and U not, and with the packed tint; for the example entry on a
\* 64x64 atlas the UV corners are (0,0), (0.5,0), (0.5,0.5) and (0,0.5).
C10_SpriteQuad ==
    spritePc = "finished" =>
        \A k \in 1..Len(textureView.views) :
            LET e == textureView.views[k]
                v(j) == created[1][6 * (k - 1) + j]
                u1 == FMul(FDiv(e.src.x1, F(textureView.w)), e.rep.x)
                u2 == FMul(FDiv(e.src.x2, F(textureView.w)), e.rep.x)
                v1 == FMul(FDiv(e.src.y1, F(textureView.h)), e.rep.y)
                v2 == FMul(FDiv(e.src.y2, F(textureView.h)), e.rep.y)
            IN  /\ [j \in 1..6 |-> v(j).position]
                     = << Vector2_new(e.dst.x1, e.dst.y1), Vector2_new(e.dst.x2, e.dst.y1),
                          Vector2_new(e.dst.x2, e.dst.y2), Vector2_new(e.dst.x1, e.dst.y1),
                          Vector2_new(e.dst.x1, e.dst.y2), Vector2_new(e.dst.x2, e.dst.y2) >>
                /\ \A j \in 1..6 :
                      /\ v(j).uv.x = IF v(j).position.x = e.dst.x1 THEN u1 ELSE u2
                      /\ v(j).uv.y = IF v(j).position.y = e.dst.y1 THEN v2 ELSE v1
                      /\ v(j).color = Rgba8_from(e.rgba)
                /\ (ExampleEntry(e) /\ textureView.w = 64 /\ textureView.h = 64 /\ offsets = 0) =>
                      /\ {v(j).uv : j \in 1..6}
                            = {Vector2_new(0, 0), Vector2_new(F(1) \div 2, 0),
                               Vector2_new(F(1) \div 2, F(1) \div 2),
                               Vector2_new(0, F(1) \div 2)}
                      /\ v(1).uv = Vector2_new(0, F(1) \div 2)
                      /\ v(3).uv = Vector2_new(F(1) \div 2, 0)

C10_Witness ==
    /\ spritePc = "finished"
    /\ textureView.w = 64
    /\ textureView.h = 64
    /\ offsets = 0
    /\ Len(textureView.views) = 2
    /\ ExampleEntry(textureView.views[1])
    /\ textureView.views[1].rgba = WHITE
    /\ textureView.views[2].rep # Repeat_new(F(1), F(1))
    /\ Len(created[1]) = 12

\* C11: a rectangle whose stroke width is 0 tessellates to no stroke vertex:
\* to 0 vertices with an empty fill and to 6 with a solid fill.
C11_ZeroWidthNoStroke ==
    (/\ tessPc # "ready"
     /\ shape.kind = "Rectangle"
     /\ shape.stroke.width = 0
     /\ shape.fill.kind # "Gradient")
    => /\ tessPc = "returned"
       /\ Len(tessVerts) = IF shape.fill.kind = "Empty" THEN 0 ELSE 6

\* the x (c = "x") or y (c = "y") coordinates of the six vertices of the k-th
\* border quad, k = 1 (left), 2 (right), 3 (top), 4 (bottom)
QuadCoords(k, c) ==
    {IF c = "x" THEN tessVerts[6 * (k - 1) + j].position.x
                ELSE tessVerts[6 * (k - 1) + j].position.y : j \in 1..6}

\* the case of C12: x1 < x2, y1 < y2, 0 < w <= min(x2 - x1, y2 - y1), and no
\* border segment of zero length
StrokeFits(s) ==
    /\ s.kind = "Rectangle"
    /\ s.r.x1 < s.r.x2
    /\ s.r.y1 < s.r.y2
    /\ s.stroke.width > 0
    /\ s.stroke.width <= s.r.x2 - s.r.x1
    /\ s.stroke.width <= s.r.y2 - s.r.y1
    /\ s.r.y1 + s.stroke.width # s.r.y2
    /\ s.r.x1 + s.stroke.width # s.r.x2

\* C12: for a rectangle whose stroke fits, each of the 24 stroke vertices lies
\* within the bounds of the rectangle, and every border quad is exactly w
\* thick, measured inward from its edge.
C12_StrokeInsideBounds ==
    (tessPc = "returned" /\ StrokeFits(shape))
    => LET r == shape.r
           w == shape.stroke.width
       IN  /\ Len(tessVerts) >= 24
           /\ \A j \in 1..24 :
                 /\ r.x1 <= tessVerts[j].position.x
                 /\ tessVerts[j].position.x <= r.x2
                 /\ r.y1 <= tessVerts[j].position.y
                 /\ tessVerts[j].position.y <= r.y2
           /\ QuadCoords(1, "x") = {r.x1, r.x1 + w}
           /\ QuadCoords(2, "x") = {r.x2 - w, r.x2}
           /\ QuadCoords(3, "y") = {r.y2 - w, r.y2}
           /\ QuadCoords(4, "y") = {r.y1, r.y1 + w}

C12_Witness ==
    /\ tessPc = "returned"
    /\ StrokeFits(shape)
    /\ shape.stroke.width = F(2)
    /\ shape.stroke.color = RED
    /\ shape.fill.kind = "Solid"
    /\ Len(tessVerts) = 30

====
